---- MODULE Spec2Model ----
(***************************************************************************)
(* napari_matplotlib/scatter.py: ScatterBaseWidget, ScatterWidget and      *)
(* FeaturesScatterWidget as a state machine.                               *)
(*                                                                         *)
(* One widget is constructed (Init chooses its class and the value of the  *)
(* MAX_SCATTER_POINTS environment variable at class-definition time).  A   *)
(* step is one GUI event or one call of a public method, run to            *)
(* completion: handlers are synchronous, and a Qt signal calls its slot    *)
(* before the emitting call returns.  `trace` records, in order, what the  *)
(* last handler did: the currentTextChanged signals the combo boxes        *)
(* emitted, the _draw calls, and for every call of draw the selector       *)
(* contents it ran on, whether it called _get_data, the calls it made on   *)
(* the axes, and whether it raised.                                        *)
(***************************************************************************)
EXTENDS Integers, Sequences, FiniteSets, TLC

VARIABLES cls, env, _threshold_to_switch_to_histogram, layers, selectors, lastOp, trace

vars == <<cls, env, _threshold_to_switch_to_histogram, layers, selectors, lastOp, trace>>

-----------------------------------------------------------------------------
(* Bounds of the model *)

\* most rows in a feature table
MaxRows == 3

\* most layers selected in the viewer at once
MaxLayers == 2

-----------------------------------------------------------------------------
(* Python values *)

\* Python's None where a str is expected (x_axis_key of an empty selector);
\* different from the str "None" that on_update_layers puts in "Color by"
PyNone == "<NoneType>"

Range(s) == {s[i] : i \in 1..Len(s)}

IndexOf(s, v) == IF v \in Range(s) THEN CHOOSE i \in 1..Len(s) : s[i] = v /\ \A j \in 1..(i - 1) : s[j] /= v ELSE 0

-----------------------------------------------------------------------------
(* The class attribute _threshold_to_switch_to_histogram *)

\* the value of os.environ.get("MAX_SCATTER_POINTS"): unset (None), or a str
\* given as its characters
EnvUnset == [isSet |-> FALSE, chars |-> <<>>]

EnvStr(s) == [isSet |-> TRUE, chars |-> s]

EnvValues == {EnvUnset, EnvStr(<<"x">>), EnvStr(<<"2">>), EnvStr(<<"-", "1">>)}

DigitChars == <<"0", "1", "2", "3", "4", "5", "6", "7", "8", "9">>

IsDigit(c) == c \in Range(DigitChars)

DigitVal(c) == IndexOf(DigitChars, c) - 1

RECURSIVE StripLeft(_)
StripLeft(s) == IF s /= <<>> /\ Head(s) = " " THEN StripLeft(Tail(s)) ELSE s

RECURSIVE StripRight(_)
StripRight(s) == IF s /= <<>> /\ s[Len(s)] = " " THEN StripRight(SubSeq(s, 1, Len(s) - 1)) ELSE s

RECURSIVE DigitsValue(_)
DigitsValue(s) == IF s = <<>> THEN 0 ELSE 10 * DigitsValue(SubSeq(s, 1, Len(s) - 1)) + DigitVal(s[Len(s)])

\* Python's int(v): [ok, val]; not ok stands for the TypeError of int(None)
\* and the ValueError of a str that is no decimal literal
PyInt(v) ==
  IF ~v.isSet THEN [ok |-> FALSE, val |-> 0]
  ELSE LET s == StripRight(StripLeft(v.chars))
           signed == s /= <<>> /\ Head(s) \in {"+", "-"}
           digits == IF signed THEN Tail(s) ELSE s
       IN IF digits = <<>> \/ \E i \in 1..Len(digits) : ~IsDigit(digits[i])
          THEN [ok |-> FALSE, val |-> 0]
          ELSE [ok |-> TRUE, val |-> IF signed /\ Head(s) = "-" THEN 0 - DigitsValue(digits) ELSE DigitsValue(digits)]

\* the fallback of the bare except
DefaultThreshold == 500

\* try: int(os.environ.get("MAX_SCATTER_POINTS")) except: 500
ThresholdFromEnv(v) == IF PyInt(v).ok THEN PyInt(v).val ELSE DefaultThreshold

-----------------------------------------------------------------------------
(* Layers *)

\* a missing value of a feature column (numpy.nan)
NaN == "nan"

\* the non-missing values of a feature column, in sorted order
ValueOrder == <<"v1", "v2">>

Values == Range(ValueOrder) \cup {NaN}

\* the column names of the feature tables, in the orders the model draws from;
\* a column may be called "None", like the first item of "Color by"
KeyLists == {<<>>, <<"a">>, <<"a", "b">>, <<"None", "a">>}

\* the value of row i in the columns whose values the model fixes
Pattern(i) == ValueOrder[((i - 1) % Len(ValueOrder)) + 1]

\* the feature tables (pandas.DataFrame) of n rows with the column keys ks:
\* the keys in order and the rows, each row a function from the keys to
\* values.  Column "a" holds any values, missing ones included; every other
\* column holds Pattern.
TablesOf(ks, n) ==
  {[keys |-> ks, rows |-> [i \in 1..n |-> [k \in Range(ks) |-> IF k = "a" THEN av[i] ELSE Pattern(i)]]] :
     av \in IF "a" \in Range(ks) THEN [1..n -> Values] ELSE {[i \in 1..n |-> NaN]}}

\* the tables of a widget that keeps its one selected layer (SpecData)
Tables == UNION {TablesOf(ks, n) : ks \in {<<"a", "b">>, <<"None", "a">>}, n \in 0..MaxRows}

\* the tables the selection changes among: no row, or one row without
\* missing values
PlainTables == {t \in UNION {TablesOf(ks, n) : ks \in KeyLists, n \in 0..1} : \A i \in 1..Len(t.rows) : \A k \in Range(t.keys) : t.rows[i][k] = Pattern(i)}

NoTable == [keys |-> <<>>, rows |-> <<>>]

\* x.size of the slice data[current_z] of an image layer
Sizes == {2, 3, DefaultThreshold, DefaultThreshold + 1}

\* napari.layers.Image: no features attribute
ImageLayers == [name : {"A"}, kind : {"image"}, size : Sizes, table : {NoTable}] \cup [name : {"B"}, kind : {"image"}, size : {2}, table : {NoTable}]

\* a layer of FEATURES_LAYER_TYPES: a features attribute holding a table
FeatureLayer(t) == [name |-> "P", kind |-> "features", size |-> 0, table |-> t]

\* hasattr(layer, "features")
HasFeatures(layer) == layer.kind = "features"

\* a layer without features that stands for the layers FeaturesScatterWidget
\* never reads
OtherLayer == [name |-> "B", kind |-> "image", size |-> 0, table |-> NoTable]

\* the selections the viewer can hold for a ScatterWidget, which reads
\* layers[0] and layers[1]
ScatterSelections == UNION {[1..n -> ImageLayers] : n \in 0..MaxLayers}

\* and for a FeaturesScatterWidget, which reads only len(layers) and layers[0]
FeaturesSelections ==
  {<<>>} \cup UNION {{<<first>> \o [i \in 1..n |-> OtherLayer] : first \in {FeatureLayer(t) : t \in PlainTables} \cup {OtherLayer}} : n \in 0..(MaxLayers - 1)}

\* the selections the viewer can hold
Selections(c) == IF c = "ScatterWidget" THEN ScatterSelections ELSE FeaturesSelections

-----------------------------------------------------------------------------
(* QComboBox (not editable): items and the current index; cur = 0 is Qt's   *)
(* currentIndex() = -1, cur = i is Qt's index i - 1                         *)

Dims == <<"x-axis", "y-axis", "Color by">>

EmptyCombo == [items |-> <<>>, cur |-> 0]

count(cb) == Len(cb.items)

currentText(cb) == IF cb.cur = 0 THEN "" ELSE cb.items[cb.cur]

\* removeItem(0): a current item behind the removed one keeps its text; when
\* the current item is the removed one the next item becomes current
removeItem0(cb) ==
  LET rest == Tail(cb.items)
  IN [items |-> rest,
      cur |-> IF cb.cur = 0 THEN 0
              ELSE IF cb.cur = 1 THEN (IF rest = <<>> THEN 0 ELSE 1)
              ELSE cb.cur - 1]

\* addItems(texts): appends; an empty box makes its first new item current
addItems(cb, texts) ==
  IF texts = <<>> THEN cb
  ELSE [items |-> cb.items \o texts, cur |-> IF cb.items = <<>> THEN 1 ELSE cb.cur]

\* setCurrentText(text): the first item with that text becomes current, and
\* nothing happens when there is none
setCurrentText(cb, text) ==
  IF IndexOf(cb.items, text) = 0 THEN cb ELSE [cb EXCEPT !.cur = IndexOf(cb.items, text)]

\* the user picking item i of the drop-down list
setCurrentIndex(cb, i) == [cb EXCEPT !.cur = i]

-----------------------------------------------------------------------------
(* FeaturesScatterWidget: the key properties *)

\* x_axis_key, y_axis_key, color_by_key (the getters): None for an empty
\* selector, its current text otherwise
SelectorKey(sel, dim) == IF count(sel[dim]) = 0 THEN PyNone ELSE currentText(sel[dim])

x_axis_key(sel) == SelectorKey(sel, "x-axis")

y_axis_key(sel) == SelectorKey(sel, "y-axis")

color_by_key(sel) == SelectorKey(sel, "Color by")

\* _get_valid_axis_keys
_get_valid_axis_keys(L) ==
  IF Len(L) = 0 \/ ~HasFeatures(L[1]) THEN <<>> ELSE L[1].table.keys

\* _ready_to_scatter without its test of len(feature_table)
_ready_to_scatterNoRows(L, sel) ==
  IF ~HasFeatures(L[1]) THEN FALSE
  ELSE /\ SelectorKey(sel, "x-axis") \in Range(L[1].table.keys)
       /\ SelectorKey(sel, "y-axis") \in Range(L[1].table.keys)
       /\ SelectorKey(sel, "Color by") \in Range(L[1].table.keys)

\* _ready_to_scatter, for a non-empty self.layers (layers[0] of an empty
\* list raises IndexError: see FeaturesDraw).  The features attribute of a
\* napari layer always holds a DataFrame, so "feature_table is not None" is
\* true of every layer that has the attribute.
_ready_to_scatter(L, sel) ==
  IF ~HasFeatures(L[1]) THEN FALSE
  ELSE LET feature_table == L[1].table
           valid_keys == Range(_get_valid_axis_keys(L))
       IN /\ Len(feature_table.rows) > 0
          /\ x_axis_key(sel) \in valid_keys
          /\ y_axis_key(sel) \in valid_keys
          /\ color_by_key(sel) \in valid_keys

-----------------------------------------------------------------------------
(* _get_data *)

\* the rows of a table, by index (1-based), whose column key holds v
RowsWith(table, key, v) == SelectSeq([i \in 1..Len(table.rows) |-> i], LAMBDA i : table.rows[i][key] = v)

\* table[key] restricted to the rows idxs: a pandas Series, each entry the
\* row's index and its value
Series(table, key, idxs) == [n \in 1..Len(idxs) |-> [row |-> idxs[n], val |-> table.rows[idxs[n]][key]]]

AllRows(table) == [i \in 1..Len(table.rows) |-> i]

\* groupby with dropna=False: the rows with a missing value make a last group
groupbyKeepNaN(table, key) ==
  LET present == SelectSeq(ValueOrder \o <<NaN>>, LAMBDA v : RowsWith(table, key, v) /= <<>>)
  IN [g \in 1..Len(present) |-> RowsWith(table, key, present[g])]

\* feature_table.groupby([key]): one group per distinct non-missing value of
\* the column, in sorted order of the value; rows with a missing value are in
\* no group (pandas' dropna=True)
groupby(table, key) ==
  LET present == SelectSeq(ValueOrder, LAMBDA v : RowsWith(table, key, v) /= <<>>)
  IN [g \in 1..Len(present) |-> RowsWith(table, key, present[g])]

\* str(key)
PyStr(k) == IF k = PyNone THEN "None" ELSE k

NoData == [raised |-> "none", isList |-> FALSE, x |-> <<>>, y |-> <<>>, size |-> 0, x_axis_name |-> "", y_axis_name |-> ""]

\* ScatterWidget._get_data: the current slices of layers[0] and layers[1]
ScatterGetData(L) ==
  IF Len(L) < 2 THEN [NoData EXCEPT !.raised = "IndexError"]
  ELSE [NoData EXCEPT !.size = L[1].size, !.x_axis_name = L[1].name, !.y_axis_name = L[2].name]

\* FeaturesScatterWidget._get_data, called when _ready_to_scatter holds
FeaturesGetData(L, sel) ==
  LET feature_table == L[1].table
      groups == IF color_by_key(sel) /= "None"
                THEN groupby(feature_table, color_by_key(sel))
                ELSE <<AllRows(feature_table)>>
  IN [NoData EXCEPT !.isList = TRUE,
                    !.x = [g \in 1..Len(groups) |-> Series(feature_table, x_axis_key(sel), groups[g])],
                    !.y = [g \in 1..Len(groups) |-> Series(feature_table, y_axis_key(sel), groups[g])],
                    !.x_axis_name = PyStr(x_axis_key(sel)),
                    !.y_axis_name = PyStr(y_axis_key(sel))]

_get_data(c, L, sel) == IF c = "ScatterWidget" THEN ScatterGetData(L) ELSE FeaturesGetData(L, sel)

-----------------------------------------------------------------------------
(* draw *)

\* what one call of draw did: the selectors it ran on, whether it called
\* _get_data, its calls on self.axes in order, the labels it set, and the
\* exception it raised
DrawEvent(sel) ==
  [ev |-> "draw", sel |-> sel, gotData |-> FALSE, calls |-> <<>>,
   labelled |-> FALSE, xlabel |-> "", ylabel |-> "", raised |-> "none"]

PlotCall(x, y) == [fn |-> "plot", x |-> x, y |-> y, size |-> 0]

ArrayCall(fn, size) == [fn |-> fn, x |-> <<>>, y |-> <<>>, size |-> size]

\* the comparison with >= for >
UseHistogramGe(size, T) == size >= T

\* x.size > self._threshold_to_switch_to_histogram
UseHistogram(size, T) == size > T

\* ScatterBaseWidget.draw
BaseDraw(c, T, L, sel) ==
  IF Len(L) = 0 THEN DrawEvent(sel)
  ELSE LET d == _get_data(c, L, sel)
       IN IF d.raised /= "none"
          THEN [DrawEvent(sel) EXCEPT !.gotData = TRUE, !.raised = d.raised]
          ELSE [DrawEvent(sel) EXCEPT
                  !.gotData = TRUE,
                  !.calls = IF d.isList
                            THEN [i \in 1..Len(d.y) |-> PlotCall(d.x[i], d.y[i])]
                            ELSE IF UseHistogram(d.size, T)
                                 THEN <<ArrayCall("hist2d", d.size)>>
                                 ELSE <<ArrayCall("scatter", d.size)>>,
                  !.labelled = TRUE,
                  !.xlabel = d.x_axis_name,
                  !.ylabel = d.y_axis_name]

\* FeaturesScatterWidget.draw; _ready_to_scatter reads self.layers[0] first,
\* an IndexError when no layer is selected
FeaturesDraw(c, T, L, sel) ==
  IF Len(L) = 0 THEN [DrawEvent(sel) EXCEPT !.raised = "IndexError"]
  ELSE IF _ready_to_scatter(L, sel) THEN BaseDraw(c, T, L, sel)
  ELSE DrawEvent(sel)

\* self.draw()
draw(c, T, L, sel) == IF c = "ScatterWidget" THEN BaseDraw(c, T, L, sel) ELSE FeaturesDraw(c, T, L, sel)

-----------------------------------------------------------------------------
(* _draw and the currentTextChanged signal *)

\* n_layers_input of the widget class, an Interval
n_layers_input(c) == IF c = "ScatterWidget" THEN [lo |-> 2, hi |-> 2] ELSE [lo |-> 1, hi |-> 1]

\* input_layer_types of the widget class
IsInputLayerType(c, layer) == IF c = "ScatterWidget" THEN layer.kind = "image" ELSE layer.kind = "features"

\* a call of self._draw()
DrawCallEvent == [ev |-> "_draw"]

\* a selector emitting currentTextChanged
TextChangedEvent(dim) == [ev |-> "currentTextChanged", dim |-> dim]

\* self._draw() of the base widget: clears the figure and calls draw when the
\* number and the types of the selected layers are the ones the class accepts
_draw(c, T, L, sel) ==
  <<DrawCallEvent>> \o
    (IF /\ Len(L) >= n_layers_input(c).lo
        /\ Len(L) <= n_layers_input(c).hi
        /\ \A i \in 1..Len(L) : IsInputLayerType(c, L[i])
     THEN <<draw(c, T, L, sel)>>
     ELSE <<>>)

\* the slots connected to currentTextChanged of every selector: _draw
ConnectedSlots(c, T, L, sel) == _draw(c, T, L, sel)

\* The handlers below thread the widget state m = [sel, trace] through their
\* statements in program order; CHOOSE r \in {F(m1) : m1 \in {v}} : TRUE is
\* F of the value of v.

\* a selector of the widget m = [sel, trace] takes a new value cb: when its
\* current text changes, Qt emits currentTextChanged and the connected slots
\* run on the selectors as they are then
Apply(c, T, L, m, dim, cb) ==
  LET sel2 == [m.sel EXCEPT ![dim] = cb]
  IN [sel |-> sel2,
      trace |-> IF currentText(cb) /= currentText(m.sel[dim])
                THEN m.trace \o <<TextChangedEvent(dim)>> \o ConnectedSlots(c, T, L, sel2)
                ELSE m.trace]

-----------------------------------------------------------------------------
(* on_update_layers *)

\* the loop run as an if: one removeItem(0)
ClearSelectorOnce(c, T, L, m, dim) ==
  IF count(m.sel[dim]) = 0 THEN m ELSE Apply(c, T, L, m, dim, removeItem0(m.sel[dim]))

\* while self._selectors[dim].count() > 0: removeItem(0)
RECURSIVE ClearSelector(_, _, _, _, _)
ClearSelector(c, T, L, m, dim) ==
  IF count(m.sel[dim]) = 0 THEN m
  ELSE CHOOSE r \in {ClearSelector(c, T, L, m1, dim) : m1 \in {Apply(c, T, L, m, dim, removeItem0(m.sel[dim]))}} : TRUE

\* the body of the for loop of on_update_layers, for one dim
RefillSelector(c, T, L, m, dim) ==
  CHOOSE r \in
    {Apply(c, T, L, m2, dim, addItems(m2.sel[dim], _get_valid_axis_keys(L))) :
       m2 \in {IF dim = "Color by" THEN Apply(c, T, L, m1, dim, addItems(m1.sel[dim], <<"None">>)) ELSE m1 :
                 m1 \in {ClearSelector(c, T, L, m, dim)}}} : TRUE

RECURSIVE RefillSelectors(_, _, _, _, _)
RefillSelectors(c, T, L, m, dims) ==
  IF dims = <<>> THEN m
  ELSE CHOOSE r \in {RefillSelectors(c, T, L, m1, Tail(dims)) : m1 \in {RefillSelector(c, T, L, m, Head(dims))}} : TRUE

\* on_update_layers: FeaturesScatterWidget's, and the base widget's no-op
on_update_layers(c, T, L, m) ==
  IF c = "FeaturesScatterWidget" THEN RefillSelectors(c, T, L, m, Dims) ELSE m

\* _update_layers of the base widget: takes the viewer's selection, calls
\* on_update_layers, then _draw
_update_layers(c, T, L, m) ==
  CHOOSE r \in {[m1 EXCEPT !.trace = m1.trace \o _draw(c, T, L, m1.sel)] : m1 \in {on_update_layers(c, T, L, m)}} : TRUE

\* a key setter without its call of self._draw()
KeySetterNoDraw(c, T, L, m, dim, key) == Apply(c, T, L, m, dim, setCurrentText(m.sel[dim], key))

\* the key setters: setCurrentText(key), then self._draw()
KeySetter(c, T, L, m, dim, key) ==
  CHOOSE r \in {[m1 EXCEPT !.trace = m1.trace \o _draw(c, T, L, m1.sel)] : m1 \in {Apply(c, T, L, m, dim, setCurrentText(m.sel[dim], key))}} : TRUE

-----------------------------------------------------------------------------
(* The state machine *)

Classes == {"ScatterWidget", "FeaturesScatterWidget"}

\* the keys a caller may assign: column names, "None", and a text no selector holds
AssignableKeys == UNION {Range(ks) : ks \in KeyLists} \cup {"None", "zz"}

NoSelectors == [d \in Range(Dims) |-> EmptyCombo]

Fresh == [sel |-> NoSelectors, trace |-> <<>>]

\* the class is defined (the threshold is read from the environment) and the
\* widget is constructed: __init__ makes the three empty selectors and calls
\* _update_layers, which takes the selection the viewer holds
Init ==
  /\ cls \in Classes
  /\ env \in EnvValues
  /\ _threshold_to_switch_to_histogram = ThresholdFromEnv(env)
  /\ layers \in Selections(cls)
  /\ \E m \in {_update_layers(cls, _threshold_to_switch_to_histogram, layers, Fresh)} :
       /\ selectors = m.sel
       /\ trace = m.trace
  /\ lastOp = "__init__"

\* the viewer's layer selection changes
UpdateLayers ==
  \E L \in Selections(cls) :
    \E m \in {_update_layers(cls, _threshold_to_switch_to_histogram, L, [sel |-> selectors, trace |-> <<>>])} :
       /\ layers' = L
       /\ selectors' = m.sel
       /\ trace' = m.trace
       /\ lastOp' = "_update_layers"
       /\ UNCHANGED <<cls, env, _threshold_to_switch_to_histogram>>

SetKey(dim, op) ==
  /\ cls = "FeaturesScatterWidget"
  /\ \E key \in AssignableKeys :
       \E m \in {KeySetter(cls, _threshold_to_switch_to_histogram, layers, [sel |-> selectors, trace |-> <<>>], dim, key)} :
          /\ selectors' = m.sel
          /\ trace' = m.trace
          /\ lastOp' = op
          /\ UNCHANGED <<cls, env, _threshold_to_switch_to_histogram, layers>>

\* widget.x_axis_key = key
SetXAxisKey == SetKey("x-axis", "x_axis_key.setter")

\* widget.y_axis_key = key
SetYAxisKey == SetKey("y-axis", "y_axis_key.setter")

\* widget.color_by_key = key
SetColorByKey == SetKey("Color by", "color_by_key.setter")

\* the user picks another item of a selector
UserSelect ==
  /\ cls = "FeaturesScatterWidget"
  /\ \E dim \in Range(Dims) : \E i \in 1..count(selectors[dim]) :
       \E m \in {Apply(cls, _threshold_to_switch_to_histogram, layers, [sel |-> selectors, trace |-> <<>>], dim, setCurrentIndex(selectors[dim], i))} :
          /\ selectors' = m.sel
          /\ trace' = m.trace
          /\ lastOp' = "select"
          /\ UNCHANGED <<cls, env, _threshold_to_switch_to_histogram, layers>>

\* widget.draw() called directly
Draw ==
  /\ trace' = <<draw(cls, _threshold_to_switch_to_histogram, layers, selectors)>>
  /\ lastOp' = "draw"
  /\ UNCHANGED <<cls, env, _threshold_to_switch_to_histogram, layers, selectors>>

Next == UpdateLayers \/ SetXAxisKey \/ SetYAxisKey \/ SetColorByKey \/ UserSelect \/ Draw

Spec == Init /\ [][Next]_vars

\* a FeaturesScatterWidget constructed with one feature layer selected, whose
\* table is any of Tables, while the selection stays; MAX_SCATTER_POINTS is
\* not set
InitData ==
  /\ cls = "FeaturesScatterWidget"
  /\ env = EnvUnset
  /\ _threshold_to_switch_to_histogram = ThresholdFromEnv(env)
  /\ layers \in {<<FeatureLayer(t)>> : t \in Tables}
  /\ \E m \in {_update_layers(cls, _threshold_to_switch_to_histogram, layers, Fresh)} :
       /\ selectors = m.sel
       /\ trace = m.trace
  /\ lastOp = "__init__"

NextData == SetXAxisKey \/ SetYAxisKey \/ SetColorByKey \/ UserSelect \/ Draw

SpecData == InitData /\ [][NextData]_vars

-----------------------------------------------------------------------------
(* What the claims read *)

\* the positions in trace of the calls of draw
DrawCalls == {i \in 1..Len(trace) : trace[i].ev = "draw"}

\* the calls of draw that returned plot data as arrays
ArrayDraws == {i \in DrawCalls : trace[i].gotData /\ trace[i].raised = "none" /\ cls = "ScatterWidget"}

CallNames(e) == [i \in 1..Len(e.calls) |-> e.calls[i].fn]

\* the column keys of the feature table of layers[0]
ColumnKeys == IF Len(layers) > 0 /\ HasFeatures(layers[1]) THEN Range(layers[1].table.keys) ELSE {}

RowCount == IF Len(layers) > 0 /\ HasFeatures(layers[1]) THEN Len(layers[1].table.rows) ELSE 0

\* the text of a selector as the claims name it: its current text, and no key
\* when it holds no item
KeyOf(sel, dim) == IF sel[dim].items = <<>> THEN PyNone ELSE sel[dim].items[sel[dim].cur]

\* C1: a draw of array data of more points than the threshold makes exactly
\* one hist2d call and no scatter call; of at most as many points as the
\* threshold (as many included) exactly one scatter call and no hist2d call.
C1_ThresholdSwitch ==
  \A i \in ArrayDraws :
    /\ layers[1].size > _threshold_to_switch_to_histogram => CallNames(trace[i]) = <<"hist2d">>
    /\ layers[1].size <= _threshold_to_switch_to_histogram => CallNames(trace[i]) = <<"scatter">>

\* a draw of exactly as many points as the threshold, scattered
C1_Witness ==
  /\ lastOp = "_update_layers"
  /\ \E i \in ArrayDraws : layers[1].size = _threshold_to_switch_to_histogram /\ CallNames(trace[i]) = <<"scatter">>

\* the state the claims call ready to be plotted, for a call of draw on the
\* selectors sel: layers[0] has a features attribute, its table has at least
\* one row, and the three keys are column keys of it
ReadyToPlot(sel) ==
  /\ Len(layers) > 0
  /\ HasFeatures(layers[1])
  /\ RowCount >= 1
  /\ KeyOf(sel, "x-axis") \in ColumnKeys
  /\ KeyOf(sel, "y-axis") \in ColumnKeys
  /\ KeyOf(sel, "Color by") \in ColumnKeys

\* C2: every draw of a FeaturesScatterWidget that is ready to be plotted makes
\* a hist2d call when the table has more rows than the threshold and a
\* scatter call otherwise, and no other call.
C2_FeaturesScatterOrHistogram ==
  cls = "FeaturesScatterWidget" =>
    \A i \in DrawCalls :
      ReadyToPlot(trace[i].sel) =>
        CallNames(trace[i]) = IF RowCount > _threshold_to_switch_to_histogram THEN <<"hist2d">> ELSE <<"scatter">>

\* C3: a ScatterWidget draws a 2D histogram if and only if the slices hold
\* more than 500 points, whatever MAX_SCATTER_POINTS was.
C3_HistogramAbove500 ==
  \A i \in ArrayDraws :
    /\ "hist2d" \in Range(CallNames(trace[i])) <=> layers[1].size > 500
    /\ "scatter" \in Range(CallNames(trace[i])) <=> layers[1].size <= 500

C5_EmptySelectionSuppressed ==
  (lastOp = "draw" /\ Len(layers) = 0) =>
    /\ ~trace[1].gotData
    /\ trace[1].calls = <<>>
    /\ ~trace[1].labelled
    /\ trace[1].raised = "none"

\* C6: with "Color by" at its first item "None", a non-empty table, valid
\* x-axis and y-axis keys and no column called "None", draw plots exactly one
\* series: the whole x column against the whole y column.
C6_ColorByNonePlotsOneSeries ==
  cls = "FeaturesScatterWidget" =>
    \A i \in DrawCalls :
      LET sel == trace[i].sel
      IN (/\ RowCount >= 1
          /\ "None" \notin ColumnKeys
          /\ KeyOf(sel, "x-axis") \in ColumnKeys
          /\ KeyOf(sel, "y-axis") \in ColumnKeys
          /\ sel["Color by"].cur = 1
          /\ KeyOf(sel, "Color by") = "None")
         => /\ Len(trace[i].calls) = 1
            /\ trace[i].calls[1].fn = "plot"
            /\ trace[i].calls[1].x = [r \in 1..RowCount |-> [row |-> r, val |-> layers[1].table.rows[r][KeyOf(sel, "x-axis")]]]
            /\ trace[i].calls[1].y = [r \in 1..RowCount |-> [row |-> r, val |-> layers[1].table.rows[r][KeyOf(sel, "y-axis")]]]

\* the feature keys of the selected layer, in order
LayerKeys == IF Len(layers) > 0 /\ HasFeatures(layers[1]) THEN layers[1].table.keys ELSE <<>>

\* C7: when on_update_layers has completed, "x-axis" and "y-axis" hold exactly
\* the feature keys of layers[0] in order (nothing without a layer or without
\* a features attribute) and "Color by" holds "None" followed by those keys,
\* whatever the selectors held before.
C7_SelectorsRefilled ==
  (cls = "FeaturesScatterWidget" /\ lastOp \in {"__init__", "_update_layers"}) =>
    /\ selectors["x-axis"].items = LayerKeys
    /\ selectors["y-axis"].items = LayerKeys
    /\ selectors["Color by"].items = <<"None">> \o LayerKeys

\* the selection changed from a layer of two or more keys to a layer of one:
\* "x-axis" changed its text at each removal and at the refill
C7_Witness ==
  /\ cls = "FeaturesScatterWidget"
  /\ lastOp = "_update_layers"
  /\ Len(LayerKeys) = 1
  /\ Cardinality({i \in 1..Len(trace) : trace[i].ev = "currentTextChanged" /\ trace[i].dim = "x-axis"}) >= 3

\* the rows (by index) of the series of a plot call
RowsOfSeries(series) == {series[n].row : n \in 1..Len(series)}

\* the calls of the draw e plot the rows R of the table grouped by the column
\* ck, and no other row: one plot call per distinct value of ck among R; the
\* x and y series of a call hold the x-axis and the y-axis value of the same
\* rows, each once; rows share a call exactly when they share the value of ck
PlotsGroups(e, ck, R) ==
  LET t == layers[1].table
      xk == KeyOf(e.sel, "x-axis")
      yk == KeyOf(e.sel, "y-axis")
      G == 1..Len(e.calls)
  IN /\ Len(e.calls) = Cardinality({t.rows[r][ck] : r \in R})
     /\ \A g \in G :
          /\ e.calls[g].fn = "plot"
          /\ Len(e.calls[g].x) = Len(e.calls[g].y)
          /\ Len(e.calls[g].x) = Cardinality(RowsOfSeries(e.calls[g].x))
          /\ \A n \in 1..Len(e.calls[g].x) :
               /\ e.calls[g].x[n].row = e.calls[g].y[n].row
               /\ e.calls[g].x[n].val = t.rows[e.calls[g].x[n].row][xk]
               /\ e.calls[g].y[n].val = t.rows[e.calls[g].y[n].row][yk]
     /\ \A r \in 1..Len(t.rows) :
          Cardinality({g \in G : r \in RowsOfSeries(e.calls[g].x)}) = IF r \in R THEN 1 ELSE 0
     /\ \A r1, r2 \in R :
          (\E g \in G : {r1, r2} \subseteq RowsOfSeries(e.calls[g].x)) <=> t.rows[r1][ck] = t.rows[r2][ck]

\* the calls of draw that called _get_data with a feature column as color_by_key
GroupedDraws == {i \in DrawCalls : trace[i].gotData /\ KeyOf(trace[i].sel, "Color by") \in ColumnKeys}

\* C8 as claimed: with a feature column as color_by_key, the rows of the table
\* are partitioned by the value of that column, every row in exactly one
\* group, and draw makes one plot call per group.
C8_PartitionsAllRows ==
  cls = "FeaturesScatterWidget" =>
    \A i \in GroupedDraws :
      PlotsGroups(trace[i], KeyOf(trace[i].sel, "Color by"), 1..RowCount)

\* C8 as amended: with a feature column not called "None" as color_by_key, the
\* rows whose value in that column is not missing are partitioned by it, one
\* group per distinct value, and draw makes one plot call per group; a row
\* whose value is missing is in no group.
C8_PartitionsRowsWithValue ==
  cls = "FeaturesScatterWidget" =>
    \A i \in GroupedDraws :
      LET ck == KeyOf(trace[i].sel, "Color by")
      IN ck /= "None" =>
           PlotsGroups(trace[i], ck, {r \in 1..RowCount : layers[1].table.rows[r][ck] /= NaN})

\* a table of three rows drawn in two groups, the third row's value missing
C8_Witness ==
  /\ cls = "FeaturesScatterWidget"
  /\ lastOp = "color_by_key.setter"
  /\ RowCount = 3
  /\ \E i \in GroupedDraws :
       /\ KeyOf(trace[i].sel, "Color by") = "a"
       /\ KeyOf(trace[i].sel, "x-axis") /= KeyOf(trace[i].sel, "y-axis")
       /\ Len(trace[i].calls) = 2
       /\ \E r \in 1..RowCount : layers[1].table.rows[r]["a"] = NaN

SetterOps == {"x_axis_key.setter", "y_axis_key.setter", "color_by_key.setter"}

\* C9: every change of the current text of a selector is followed by a call of
\* _draw, and every assignment to x_axis_key, y_axis_key or color_by_key is
\* followed by at least one call of _draw, also when the key assigned is the
\* current one.
C9_ChangeThenRedraw ==
  cls = "FeaturesScatterWidget" =>
    /\ \A i \in 1..Len(trace) :
         trace[i].ev = "currentTextChanged" => (i < Len(trace) /\ trace[i + 1].ev = "_draw")
    /\ lastOp \in SetterOps => \E i \in 1..Len(trace) : trace[i].ev = "_draw"

\* an assignment of the key that is already current: no signal, one _draw
C9_Witness ==
  /\ lastOp = "x_axis_key.setter"
  /\ selectors["x-axis"].items /= <<>>
  /\ \A i \in 1..Len(trace) : trace[i].ev /= "currentTextChanged"
  /\ \E i \in 1..Len(trace) : trace[i].ev = "_draw"

====
